---- MODULE Spec2Model ----
(***************************************************************************)
(* Off-hours filter of cloud-custodian (c7n/offhours.py): the schedule     *)
(* mini-language parser with its process-wide cache, and the time-window   *)
(* evaluator Time / OffHour / OnHour.                                      *)
(*                                                                         *)
(* Python strings are TLA+ strings; characters are taken with SubSeq.      *)
(* Tag values are byte strings (str), as in tests/test_schedule_parser.py. *)
(* A dict is a function whose DOMAIN is its set of keys.                   *)
(***************************************************************************)
EXTENDS Integers, Sequences, FiniteSets, TLC

----------------------------------------------------------------------------
(* Python built-ins used by the module, computed character by character.   *)

At(s, k) == SubSeq(s, k, k)

\* dict.get(key, default)
Get(d, k, default) == IF k \in DOMAIN d THEN d[k] ELSE default

\* d[k] = v
Put(d, k, v) == [x \in DOMAIN d \cup {k} |-> IF x = k THEN v ELSE d[x]]

\* s.startswith(p)
StartsWith(s, p) == Len(s) >= Len(p) /\ SubSeq(s, 1, Len(p)) = p

\* index of the first occurrence of sep in s, 0 when there is none
FindFirst(s, sep) ==
    LET m == Len(sep)
        hits == {k \in 1..(Len(s) - m + 1) : SubSeq(s, k, k + m - 1) = sep}
    IN  IF hits = {} THEN 0 ELSE CHOOSE k \in hits : \A j \in hits : k <= j

\* s.split(sep): every non-overlapping occurrence, left to right
RECURSIVE Split(_, _)
Split(s, sep) ==
    LET k == FindFirst(s, sep)
    IN  IF k = 0 THEN <<s>>
        ELSE <<SubSeq(s, 1, k - 1)>> \o Split(SubSeq(s, k + Len(sep), Len(s)), sep)

\* s.translate(None, deletechars)
RECURSIVE Translate(_, _)
Translate(s, deletechars) ==
    IF Len(s) = 0 THEN ""
    ELSE (IF At(s, 1) \in deletechars THEN "" ELSE At(s, 1))
         \o Translate(SubSeq(s, 2, Len(s)), deletechars)

\* s.strip(chars)
RECURSIVE LStrip(_, _)
LStrip(s, chars) ==
    IF Len(s) > 0 /\ At(s, 1) \in chars THEN LStrip(SubSeq(s, 2, Len(s)), chars) ELSE s

RECURSIVE RStrip(_, _)
RStrip(s, chars) ==
    IF Len(s) > 0 /\ At(s, Len(s)) \in chars THEN RStrip(SubSeq(s, 1, Len(s) - 1), chars) ELSE s

Strip(s, chars) == RStrip(LStrip(s, chars), chars)

Whitespace == {" ", "\t", "\n"}

\* index of the first whitespace character of s, 0 when there is none
FindSpace(s) ==
    LET hits == {k \in 1..Len(s) : At(s, k) \in Whitespace}
    IN  IF hits = {} THEN 0 ELSE CHOOSE k \in hits : \A j \in hits : k <= j

\* s.split() with no separator: the maximal runs of non-whitespace characters
RECURSIVE SplitWhitespace(_)
SplitWhitespace(s) ==
    LET t == LStrip(s, Whitespace)
        k == FindSpace(t)
    IN  IF Len(t) = 0 THEN <<>>
        ELSE IF k = 0 THEN <<t>>
        ELSE <<SubSeq(t, 1, k - 1)>> \o SplitWhitespace(SubSeq(t, k, Len(t)))

\* the letters that lower() changes
LowerOf ==
    [c \in {"A", "B", "C", "D", "E", "F", "G", "H", "I", "J", "K", "L", "M",
            "N", "O", "P", "Q", "R", "S", "T", "U", "V", "W", "X", "Y", "Z"} |->
        CASE c = "A" -> "a" [] c = "B" -> "b" [] c = "C" -> "c" [] c = "D" -> "d"
          [] c = "E" -> "e" [] c = "F" -> "f" [] c = "G" -> "g" [] c = "H" -> "h"
          [] c = "I" -> "i" [] c = "J" -> "j" [] c = "K" -> "k" [] c = "L" -> "l"
          [] c = "M" -> "m" [] c = "N" -> "n" [] c = "O" -> "o" [] c = "P" -> "p"
          [] c = "Q" -> "q" [] c = "R" -> "r" [] c = "S" -> "s" [] c = "T" -> "t"
          [] c = "U" -> "u" [] c = "V" -> "v" [] c = "W" -> "w" [] c = "X" -> "x"
          [] c = "Y" -> "y" [] c = "Z" -> "z"]

LowerChar(c) == IF c \in DOMAIN LowerOf THEN LowerOf[c] ELSE c

\* s.lower()
RECURSIVE Lower(_)
Lower(s) ==
    IF Len(s) = 0 THEN "" ELSE LowerChar(At(s, 1)) \o Lower(SubSeq(s, 2, Len(s)))

Digits == <<"0", "1", "2", "3", "4", "5", "6", "7", "8", "9">>
IsDigit(c) == \E k \in 1..10 : Digits[k] = c
DigitVal(c) == (CHOOSE k \in 1..10 : Digits[k] = c) - 1

RECURSIVE DigitsVal(_, _)
DigitsVal(s, acc) ==
    IF Len(s) = 0 THEN acc
    ELSE DigitsVal(SubSeq(s, 2, Len(s)), 10 * acc + DigitVal(At(s, 1)))

\* int(s): surrounding whitespace, an optional sign, then one or more decimal
\* digits; anything else raises ValueError (ok = FALSE)
IntOf(s) ==
    LET t == Strip(s, Whitespace)
        signed == Len(t) > 0 /\ At(t, 1) \in {"+", "-"}
        body == IF signed THEN SubSeq(t, 2, Len(t)) ELSE t
        ok == Len(body) > 0 /\ \A k \in 1..Len(body) : IsDigit(At(body, k))
    IN  [ok |-> ok,
         val |-> IF ~ok THEN 0
                 ELSE IF signed /\ At(t, 1) = "-" THEN 0 - DigitsVal(body, 0)
                 ELSE DigitsVal(body, 0)]

\* VALID_DAYS.index(d)
IndexOf(seq, x) == CHOOSE k \in 1..Len(seq) : seq[k] = x

----------------------------------------------------------------------------
(* Module constants.                                                       *)

DEFAULT_TAG == "maid_offhours"

TZ_ALIASES ==
    [a \in {"pdt", "pt", "pst", "est", "edt", "et", "cst", "cdt", "ct", "mt", "gmt", "gt"} |->
        CASE a \in {"pdt", "pt", "pst"} -> "America/Los_Angeles"
          [] a \in {"est", "edt", "et"} -> "America/New_York"
          [] a \in {"cst", "cdt", "ct"} -> "America/Chicago"
          [] a = "mt"                   -> "America/Denver"
          [] a \in {"gmt", "gt"}        -> "Europe/London"]

DEFAULT_OFFHOUR == 19
DEFAULT_ONHOUR == 7
DEFAULT_TZ == "et"

VALID_DAYS == <<"m", "t", "w", "h", "f", "s", "u">>
VALID_HOURS == 0..23

\* Python's None, and what a raised exception leaves in place of a value
None == [none |-> TRUE]

----------------------------------------------------------------------------
(* class ScheduleParser                                                    *)

is_valid_day(day) == \E k \in 1..Len(VALID_DAYS) : VALID_DAYS[k] = day

is_valid_hour_range(hour) == hour \in VALID_HOURS

\* expand_day_range: [ok |-> FALSE] is the ValueError it raises
expand_day_range(days) ==
    IF Len(days) = 1
    THEN IF ~is_valid_day(days) THEN [ok |-> FALSE, days |-> <<>>]
         ELSE [ok |-> TRUE, days |-> <<days>>]
    ELSE LET ds == Split(days, "-")
         IN  IF Len(ds) # 2 THEN [ok |-> TRUE, days |-> <<>>]
             ELSE IF ~is_valid_day(ds[1]) \/ ~is_valid_day(ds[2])
                  THEN [ok |-> FALSE, days |-> <<>>]
                  ELSE [ok |-> TRUE,
                        days |-> SubSeq(VALID_DAYS, IndexOf(VALID_DAYS, ds[1]),
                                                    IndexOf(VALID_DAYS, ds[2]))]

\* custom_hours_loop that drops a bad group and keeps the others
RECURSIVE custom_hours_loop_keep(_, _)
custom_hours_loop_keep(hours, parsed) ==
    IF Len(hours) = 0 THEN parsed
    ELSE LET hour == Split(Translate(hours[1], {"(", ")"}), ",")
         IN  IF Len(hour) # 2 THEN custom_hours_loop_keep(Tail(hours), parsed)
             ELSE LET n == IntOf(hour[2])
                      d == expand_day_range(hour[1])
                  IN  IF ~n.ok \/ ~is_valid_hour_range(n.val) \/ ~d.ok
                      THEN custom_hours_loop_keep(Tail(hours), parsed)
                      ELSE custom_hours_loop_keep(Tail(hours),
                               Append(parsed, [days |-> d.days, hour |-> n.val]))

\* the body of the loop of parse_custom_hours over the groups still to read;
\* any bad group returns [] for the whole value
RECURSIVE custom_hours_loop(_, _)
custom_hours_loop(hours, parsed) ==
    IF Len(hours) = 0 THEN parsed
    ELSE LET hour == Split(Translate(hours[1], {"(", ")"}), ",")
         IN  IF Len(hour) # 2 THEN <<>>
             ELSE LET n == IntOf(hour[2])
                      d == expand_day_range(hour[1])
                  IN  IF ~n.ok \/ ~is_valid_hour_range(n.val) \/ ~d.ok THEN <<>>
                      ELSE custom_hours_loop(Tail(hours),
                               Append(parsed, [days |-> d.days, hour |-> n.val]))

parse_custom_hours(hours) ==
    custom_hours_loop(Split(Translate(hours, {"[", "]"}), ",("), <<>>)

is_valid_hour(hour) == Len(hour.days) > 0

is_valid_hours(hours) ==
    /\ Len(hours) > 0
    /\ \A k \in 1..Len(hours) : is_valid_hour(hours[k])

is_valid(schedule) ==
    /\ ~("off" \in DOMAIN schedule /\ "on" \notin DOMAIN schedule)
    /\ ~("on" \in DOMAIN schedule /\ "off" \notin DOMAIN schedule)
    /\ ("off" \in DOMAIN schedule /\ "on" \in DOMAIN schedule) =>
           (is_valid_hours(schedule["off"]) /\ is_valid_hours(schedule["on"]))

\* one iteration of the loop over the pieces in parse
parse_piece(schedule, piece) ==
    LET kv == Split(piece, "=")
    IN  IF Len(kv) # 2 THEN schedule
        ELSE IF kv[1] = "on" \/ kv[1] = "off"
             THEN Put(schedule, kv[1], parse_custom_hours(kv[2]))
             ELSE Put(schedule, kv[1], kv[2])

RECURSIVE parse_pieces(_, _)
parse_pieces(schedule, pieces) ==
    IF Len(pieces) = 0 THEN schedule
    ELSE parse_pieces(parse_piece(schedule, pieces[1]), Tail(pieces))

\* the default timezone and the validation that end parse
parse_finish(schedule) ==
    LET s == IF "tz" \notin DOMAIN schedule THEN Put(schedule, "tz", DEFAULT_TZ)
             ELSE schedule
    IN  IF ~is_valid(s) THEN None ELSE s

\* parse on a cache miss: what is stored and returned
parse_fresh(tag_value) == parse_finish(parse_pieces(<<>>, Split(tag_value, ";")))

\* ScheduleParser().parse(tag_value) run without interruption
parse(c, tag_value) ==
    IF tag_value \in DOMAIN c
    THEN [ret |-> c[tag_value], cache |-> c]
    ELSE [ret |-> parse_fresh(tag_value),
          cache |-> Put(c, tag_value, parse_fresh(tag_value))]


----------------------------------------------------------------------------
(* The clock and the timezone database.  The clock counts whole hours of   *)
(* UTC from a Monday 00:00; minutes never reach a comparison, because both *)
(* now and the sentinel have them replaced.                                *)

\* dateutil's zone database, as the UTC offset (standard time) of each zone
ZoneOffset ==
    [z \in {"America/Los_Angeles", "America/New_York", "America/Chicago",
            "America/Denver", "Europe/London"} |->
        CASE z = "America/Los_Angeles" -> 0 - 8
          [] z = "America/New_York"    -> 0 - 5
          [] z = "America/Chicago"     -> 0 - 6
          [] z = "America/Denver"      -> 0 - 7
          [] z = "Europe/London"       -> 0]

\* zoneinfo.gettz(name)
gettz(name) == IF name \in DOMAIN ZoneOffset THEN name ELSE "None"

\* datetime.datetime.now(tz), read when the clock shows clk
datetime_now(tz, clk) ==
    [date |-> (clk + ZoneOffset[tz]) \div 24,
     hour |-> (clk + ZoneOffset[tz]) % 24,
     minute |-> 0]

\* datetime.weekday(): Monday is 0
weekday(t) == t.date % 7

\* what a call hands back: a boolean, or an exception that leaves the call
Return(b) == [exc |-> "none", value |-> b]
Raise(e) == [exc |-> e, value |-> FALSE]

----------------------------------------------------------------------------
(* class Time and its subclasses OffHour and OnHour.  A filter is          *)
(* [variant, data]; data is the options dict of the policy.                *)

skew_of(self) == Get(self.data, "skew", 0)
weekends_of(self) == Get(self.data, "weekends", FALSE)
opt_out_of(self) == Get(self.data, "opt-out", FALSE)

\* tag_map = {t['Key'].lower(): t['Value'] for t in i.get('Tags', [])}
RECURSIVE tag_map_of(_, _)
tag_map_of(tags, m) ==
    IF Len(tags) = 0 THEN m
    ELSE tag_map_of(Tail(tags), Put(m, Lower(tags[1].Key), tags[1].Value))

\* get_tag_parts: found = FALSE is the (False, tag_map) return
get_tag_parts(self, i) ==
    LET tag_key == Lower(Get(self.data, "tag", DEFAULT_TAG))
        tag_map == tag_map_of(Get(i, "Tags", <<>>), <<>>)
    IN  IF tag_key \notin DOMAIN tag_map THEN [found |-> FALSE, parts |-> <<>>]
        ELSE [found |-> TRUE,
              parts |-> SplitWhitespace(
                           Strip(Strip(Lower(tag_map[tag_key]), {"'"}), {"\""}))]

\* get_local_tz: the zone, "None" when the database has none, "ValueError"
\* when the tz= part does not unpack into two
get_local_tz(self, parts) ==
    LET hits == {k \in 1..Len(parts) : StartsWith(parts[k], "tz=")}
        first == CHOOSE k \in hits : \A j \in hits : k <= j
        kv == Split(parts[first], "=")
        tz_spec == IF hits = {}
                   THEN (IF "default_tz" \in DOMAIN self.data /\ self.data["default_tz"] # ""
                         THEN self.data["default_tz"]
                         ELSE Get(self.data, "default-tz", DEFAULT_TZ))
                   ELSE kv[2]
    IN  IF hits # {} /\ Len(kv) # 2 THEN "ValueError"
        ELSE gettz(IF tz_spec \in DOMAIN TZ_ALIASES THEN TZ_ALIASES[tz_spec] ELSE tz_spec)

is_custom(parts) ==
    /\ Cardinality(DOMAIN parts) = 3
    /\ Len(Get(parts, "on", <<>>)) > 0
    /\ Len(Get(parts, "off", <<>>)) > 0

\* custom_match that takes every hour from the rule's hour on
custom_match_from_hour(time, now) ==
    \E k \in 1..Len(time) : \E j \in 1..Len(time[k].days) :
        /\ weekday(now) = IndexOf(VALID_DAYS, time[k].days[j]) - 1
        /\ now.hour >= time[k].hour

\* the two nested loops of get_custom_time
custom_match(time, now) ==
    \E k \in 1..Len(time) : \E j \in 1..Len(time[k].days) :
        /\ weekday(now) = IndexOf(VALID_DAYS, time[k].days[j]) - 1
        /\ now.hour = time[k].hour

get_custom_time(self, now, parts) ==
    IF self.variant \in {"InstanceOnHour", "OnHour"} THEN custom_match(parts["on"], now)
    ELSE IF self.variant \in {"InstanceOffHour", "OffHour"} THEN custom_match(parts["off"], now)
    ELSE FALSE

\* datetime.replace(hour=h): ValueError outside 0..23
replace_hour(t, h) ==
    IF h \in 0..23 THEN [ok |-> TRUE, t |-> [t EXCEPT !.hour = h]]
    ELSE [ok |-> FALSE, t |-> t]

\* Time.get_sentinel_time, on the clock reading t it takes itself
base_sentinel_time(self, t) ==
    LET h == Get(self.data, "hour", 0)
        m == Get(self.data, "minute", 0)
    IN  IF h \in 0..23 /\ m \in 0..59
        THEN [ok |-> TRUE, t |-> [t EXCEPT !.hour = h, !.minute = m]]
        ELSE [ok |-> FALSE, t |-> t]

\* the hour the subclass puts on the sentinel
sentinel_hour(self) ==
    IF self.variant = "OffHour" THEN Get(self.data, "offhour", DEFAULT_OFFHOUR)
    ELSE Get(self.data, "onhour", DEFAULT_ONHOUR)

\* get_sentinel_time as dispatched on the variant
get_sentinel_time(self, t) ==
    LET b == base_sentinel_time(self, t)
    IN  IF self.variant \in {"OffHour", "OnHour"} /\ b.ok
        THEN replace_hour(b.t, sentinel_hour(self))
        ELSE b

\* the skew loop, from offset k on: for i in range(1, skew + 1)
RECURSIVE skew_probe(_, _, _, _, _)
skew_probe(sentinel, hour, now, k, skew) ==
    IF k > skew THEN Return(FALSE)
    ELSE LET r == replace_hour(sentinel, hour + k)
         IN  IF ~r.ok THEN Raise("ValueError")
             ELSE IF r.t = now THEN Return(TRUE)
             ELSE skew_probe(r.t, hour, now, k + 1, skew)

\* process_current_time from the sentinel on; t is the second clock reading
sentinel_compare(self, now, t) ==
    LET s == get_sentinel_time(self, t)
    IN  IF ~s.ok THEN Raise("ValueError")
        ELSE IF s.t = now THEN Return(TRUE)
        ELSE IF skew_of(self) = 0 THEN Return(FALSE)
        ELSE skew_probe(s.t, s.t.hour, now, 1, skew_of(self))

\* call_parts that returns False for every untagged resource, opt-out or not
call_parts_opt_in(self, i) ==
    LET tp == get_tag_parts(self, i)
    IN  IF ~tp.found THEN [returned |-> TRUE, parts |-> <<>>]
        ELSE IF \E k \in 1..Len(tp.parts) : tp.parts[k] = "off"
             THEN [returned |-> TRUE, parts |-> tp.parts]
             ELSE [returned |-> FALSE, parts |-> tp.parts]

\* __call__ down to the disable token: returned is its "return False"
call_parts(self, i) ==
    LET tp == get_tag_parts(self, i)
    IN  IF ~tp.found /\ ~opt_out_of(self) THEN [returned |-> TRUE, parts |-> <<>>]
        ELSE IF \E k \in 1..Len(tp.parts) : tp.parts[k] = "off"
             THEN [returned |-> TRUE, parts |-> tp.parts]
             ELSE [returned |-> FALSE, parts |-> tp.parts]

\* the try / except that opens process_current_time: parts[0] of an empty
\* list and a None from the parser both end in the parse of ""
parse_parts(parts, c) ==
    LET p1 == IF Len(parts) = 0 THEN [ret |-> None, cache |-> c]
              ELSE parse(c, parts[1])
    IN  IF p1.ret = None THEN parse(p1.cache, "") ELSE p1

\* process_current_time down to "if not tz", given the parse
resolve_parsed(self, p) ==
    LET z == get_local_tz(self, <<"tz=" \o Get(p.ret, "tz", "None")>>)
    IN  IF z = "ValueError"
        THEN [done |-> TRUE, result |-> Raise("ValueError"), cache |-> p.cache,
              parsed |-> p.ret, tz |-> "None"]
        ELSE IF z = "None"
        THEN [done |-> TRUE, result |-> Return(FALSE), cache |-> p.cache,
              parsed |-> p.ret, tz |-> "None"]
        ELSE [done |-> FALSE, result |-> Return(FALSE), cache |-> p.cache,
              parsed |-> p.ret, tz |-> z]

\* __call__ and process_current_time up to the first clock reading
prefix_of(self, cp, c) ==
    IF cp.returned
    THEN [done |-> TRUE, result |-> Return(FALSE), cache |-> c, parsed |-> None, tz |-> "None"]
    ELSE resolve_parsed(self, parse_parts(cp.parts, c))

call_prefix(self, i, c) == prefix_of(self, call_parts(self, i), c)

\* first_reading whose weekend is the weekdays 6 and 7
first_reading_sunday(self, parsed, now) ==
    IF ~weekends_of(self) /\ weekday(now) \in {6, 7}
    THEN [done |-> TRUE, result |-> Return(FALSE)]
    ELSE IF is_custom(parsed)
    THEN [done |-> TRUE, result |-> Return(get_custom_time(self, now, parsed))]
    ELSE [done |-> FALSE, result |-> Return(FALSE)]

\* process_current_time from the first clock reading to the custom path
first_reading(self, parsed, now) ==
    IF ~weekends_of(self) /\ weekday(now) \in {5, 6}
    THEN [done |-> TRUE, result |-> Return(FALSE)]
    ELSE IF is_custom(parsed)
    THEN [done |-> TRUE, result |-> Return(get_custom_time(self, now, parsed))]
    ELSE [done |-> FALSE, result |-> Return(FALSE)]

\* the rest of a call whose prefix is p, with clock readings clk1 and clk2
call_rest(self, p, clk1, clk2) ==
    IF p.done THEN p.result
    ELSE LET f == first_reading(self, p.parsed, datetime_now(p.tz, clk1))
         IN  IF f.done THEN f.result
             ELSE sentinel_compare(self, datetime_now(p.tz, clk1), datetime_now(p.tz, clk2))

\* a whole call whose two clock readings show clk1 and clk2
call(self, i, c, clk1, clk2) == call_rest(self, call_prefix(self, i, c), clk1, clk2)

----------------------------------------------------------------------------
(* Bounds and the inputs drawn from them.                                  *)

\* largest skew option
MaxSkew == 2
\* the clock starts within ClockSpan hours of StartClock
ClockSpan == 6
\* hours the clock may advance between the two readings of one call
MaxDrift == 1
\* calls to parse that run concurrently
NumThreads == 2
\* pieces joined by ";" in a raw string handed to the parser
MaxPieces == 3

\* first instant of the clock, in hours of UTC from Monday 00:00: with 119,
\* Friday 18:00 in America/New_York
StartClock == 119

Clocks == StartClock..(StartClock + ClockSpan)

\* an option that may be left out of the policy
Opt(k, S) == {<<>>} \cup {[x \in {k} |-> s] : s \in S}

CommonData ==
    {a @@ b @@ c @@ d : a \in Opt("skew", 1..MaxSkew), b \in Opt("weekends", {TRUE}),
                        c \in Opt("opt-out", {TRUE}), d \in Opt("default_tz", {"pt"})}

\* the schema admits offhour / onhour in 0..24
SentinelOptions == {22, 24}

Filters ==
    {[variant |-> "Time", data |-> d] : d \in CommonData}
    \cup {[variant |-> "OffHour", data |-> d @@ h] :
              d \in CommonData, h \in Opt("offhour", SentinelOptions)}
    \cup {[variant |-> "OnHour", data |-> d @@ h] :
              d \in CommonData, h \in Opt("onhour", SentinelOptions)}

\* custom schedules as the grammar writes them: groups of a day range
\* first..last (in week order) and an hour, an optional timezone
CustomSchedules ==
    {[off |-> <<[first |-> "m", last |-> "f", hour |-> 19]>>,
      on  |-> <<[first |-> "m", last |-> "f", hour |-> 7]>>, tz |-> ""],
     [off |-> <<[first |-> "m", last |-> "f", hour |-> 19], [first |-> "s", last |-> "s", hour |-> 0]>>,
      on  |-> <<[first |-> "m", last |-> "f", hour |-> 20], [first |-> "s", last |-> "u", hour |-> 1]>>,
      tz |-> "est"],
     [off |-> <<[first |-> "f", last |-> "f", hour |-> 16]>>,
      on  |-> <<[first |-> "h", last |-> "s", hour |-> 17]>>, tz |-> "pt"]}

RenderGroup(g) ==
    "(" \o (IF g.first = g.last THEN g.first ELSE g.first \o "-" \o g.last)
        \o "," \o ToString(g.hour) \o ")"

RECURSIVE JoinWith(_, _)
JoinWith(seq, sep) ==
    IF Len(seq) = 0 THEN ""
    ELSE IF Len(seq) = 1 THEN seq[1]
    ELSE seq[1] \o sep \o JoinWith(Tail(seq), sep)

RenderGroups(gs) ==
    LET body == JoinWith([k \in 1..Len(gs) |-> RenderGroup(gs[k])], ",")
    IN  IF Len(gs) = 1 THEN body ELSE "[" \o body \o "]"

RenderSchedule(s) ==
    "off=" \o RenderGroups(s.off) \o ";on=" \o RenderGroups(s.on)
        \o (IF s.tz = "" THEN "" ELSE ";tz=" \o s.tz)

\* pairs with a key the parser does not know
UnknownPairs == {"foo=bar"}

\* tag values without an unknown pair
BaseValues ==
    {"", "tz=pt", "off", "tz=bogus", "'TZ=PT'", "tz=pt off", "off=(m-z,19);on=(m-f,7)"}
    \cup {RenderSchedule(s) : s \in CustomSchedules}

UnknownBases ==
    {"tz=pt"} \cup {RenderSchedule(s) : s \in CustomSchedules}

TagValues ==
    BaseValues \cup {b \o ";" \o u : b \in UnknownBases, u \in UnknownPairs}

Tagged(v) == [Tags |-> <<[Key |-> "Name", Value |-> "web"], [Key |-> "Maid_Offhours", Value |-> v]>>]
Untagged == [Tags |-> <<[Key |-> "Name", Value |-> "web"]>>]

Resources == {Untagged} \cup {Tagged(v) : v \in TagValues}

\* values of an on= pair and of an off= pair, as lists of groups: well
\* formed, of the wrong arity, with an unknown day code, with a hour that is
\* no number, with a hour out of range
OnLists == {<<"(m-f,7)">>, <<"(m-f,7)", "(s,15)">>, <<"(m,1,2)">>, <<"(m-f,19)", "(x,10)">>}
OffLists == {<<"(m-f,19)">>, <<"(m-f,19)", "(s,9)">>, <<"(m-f,asdf)">>, <<"(m-f,99)">>}

RenderList(gs) ==
    IF Len(gs) = 1 THEN gs[1] ELSE "[" \o JoinWith(gs, ",") \o "]"

\* the pieces a raw string is joined from
Pieces ==
    {[key |-> "on", groups |-> gs, text |-> "on=" \o RenderList(gs)] : gs \in OnLists}
    \cup {[key |-> "off", groups |-> gs, text |-> "off=" \o RenderList(gs)] : gs \in OffLists}
    \cup {[key |-> "tz", groups |-> <<>>, text |-> "tz=pst"],
          [key |-> "foo", groups |-> <<>>, text |-> "foo=bar"],
          [key |-> "", groups |-> <<>>, text |-> ""]}

PieceSeqs == UNION {[1..n -> Pieces] : n \in 0..MaxPieces}

\* the raw strings handed to the parser on its own
ParsePool == {JoinWith([k \in 1..Len(ps) |-> ps[k].text], ";") : ps \in PieceSeqs}

\* the raw strings the concurrent parsers race on
RacePool == {"tz=pt", "off=(m,1);on=(t,2)", "off=(m,1);on=(m-z,2)"}

----------------------------------------------------------------------------
VARIABLES
    clock,      \* the system clock, in hours of UTC
    cache,      \* ScheduleParser.cache, shared by every parser
    self,       \* the filter: its variant and its options
    i,          \* the resource under evaluation
    pc,         \* where the call to the filter stands
    tz,         \* the zone process_current_time resolved
    now,        \* its first clock reading, in that zone
    result,     \* what the call handed back
    ppc,        \* per thread: where its call to parse stands
    tag_value,  \* per thread: the argument of parse
    schedule,   \* per thread: the local schedule of parse
    pieces,     \* per thread: the pieces parse has still to read
    ret         \* per thread: what parse returned

evalVars == <<self, i, pc, tz, now, result>>
parseVars == <<ppc, tag_value, schedule, pieces, ret>>
vars == <<clock, cache, self, i, pc, tz, now, result, ppc, tag_value, schedule, pieces, ret>>

Threads == 1..NumThreads

NoTime == [date |-> 0, hour |-> 0, minute |-> 0]

ParseIdle ==
    /\ ppc = [t \in Threads |-> "idle"]
    /\ tag_value = [t \in Threads |-> ""]
    /\ schedule = [t \in Threads |-> <<>>]
    /\ pieces = [t \in Threads |-> <<>>]
    /\ ret = [t \in Threads |-> None]

EvalIdle ==
    /\ pc = "idle"
    /\ tz = "None"
    /\ now = NoTime
    /\ result = Return(FALSE)

----------------------------------------------------------------------------
(* The evaluation of one resource by one filter, with the clock running.   *)

Init ==
    /\ clock \in Clocks
    /\ cache = <<>>
    /\ self \in Filters
    /\ i \in Resources
    /\ EvalIdle
    /\ ParseIdle

\* __call__ up to the first clock reading and what follows it without a
\* second reading: the weekend rule and the custom path
Call ==
    /\ pc = "idle"
    /\ \E p \in {call_prefix(self, i, cache)} :
           /\ cache' = p.cache
           /\ IF p.done
              THEN /\ pc' = "done"
                   /\ result' = p.result
                   /\ UNCHANGED <<tz, now>>
              ELSE \E f \in {first_reading(self, p.parsed, datetime_now(p.tz, clock))} :
                   /\ tz' = p.tz
                   /\ now' = datetime_now(p.tz, clock)
                   /\ pc' = IF f.done THEN "done" ELSE "sentinel"
                   /\ result' = f.result
    /\ UNCHANGED <<clock, self, i, parseVars>>

\* get_sentinel_time reads the clock again; the comparison and the skew loop
Sentinel ==
    /\ pc = "sentinel"
    /\ result' = sentinel_compare(self, now, datetime_now(tz, clock))
    /\ pc' = "done"
    /\ UNCHANGED <<clock, cache, self, i, tz, now, parseVars>>

\* the caller takes the result; the next policy run calls again, on the
\* cache this one leaves
Finish ==
    /\ pc = "done"
    /\ pc' = "idle"
    /\ tz' = "None"
    /\ now' = NoTime
    /\ result' = Return(FALSE)
    /\ UNCHANGED <<clock, cache, self, i, parseVars>>

\* hours since the first reading of the call in progress
Drift == (datetime_now(tz, clock).date * 24 + datetime_now(tz, clock).hour)
             - (now.date * 24 + now.hour)

\* the clock passes an hour boundary
Tick ==
    /\ \/ pc = "idle" /\ clock < StartClock + ClockSpan
       \/ pc = "sentinel" /\ Drift < MaxDrift /\ clock < StartClock + ClockSpan + MaxDrift
    /\ clock' = clock + 1
    /\ UNCHANGED <<cache, evalVars, parseVars>>

Next == Call \/ Sentinel \/ Finish \/ Tick

Spec == Init /\ [][Next]_vars

TypeOK ==
    /\ pc \in {"idle", "sentinel", "done"}
    /\ result.exc \in {"none", "ValueError"}
    /\ result.value \in BOOLEAN

----------------------------------------------------------------------------
(* What the claims speak of, read off the state.                           *)

\* the call is over
Done == pc = "done"

\* the clock at the first reading of the call; a call that read no clock
\* ran at the instant the clock shows
FirstClock ==
    IF tz = "None" THEN clock ELSE now.date * 24 + now.hour - ZoneOffset[tz]

\* the call passed the tag lookup and the disable token
Evaluated == ~call_parts(self, i).returned

\* the weekend rule excludes the day of the first reading
WeekendExcluded == ~weekends_of(self) /\ weekday(now) \in {5, 6}

\* week order of the day codes, Monday first
DayNumber ==
    [d \in {"m", "t", "w", "h", "f", "s", "u"} |->
        CASE d = "m" -> 0 [] d = "t" -> 1 [] d = "w" -> 2 [] d = "h" -> 3
          [] d = "f" -> 4 [] d = "s" -> 5 [] d = "u" -> 6]

\* some group of the list names the day and the hour of t
GroupMatches(groups, t) ==
    \E k \in 1..Len(groups) :
        /\ DayNumber[groups[k].first] <= weekday(t)
        /\ weekday(t) <= DayNumber[groups[k].last]
        /\ groups[k].hour = t.hour

\* the first token of the tag, when the tag has one
FirstToken ==
    LET tp == get_tag_parts(self, i)
    IN  IF Len(tp.parts) = 0 THEN "" ELSE tp.parts[1]

\* the tz= pairs written in the first token of the tag
GivenTz ==
    LET ps == Split(FirstToken, ";")
    IN  {SubSeq(ps[k], 4, Len(ps[k])) : k \in {j \in 1..Len(ps) : StartsWith(ps[j], "tz=")}}

\* the zone a timezone code stands for
ZoneOf(code) == gettz(IF code \in DOMAIN TZ_ALIASES THEN TZ_ALIASES[code] ELSE code)

\* the code the precedence rule picks: tag, then policy option, then 'et'
PrecedenceTz ==
    IF GivenTz # {} THEN CHOOSE z \in GivenTz : TRUE
    ELSE IF "default_tz" \in DOMAIN self.data THEN self.data["default_tz"]
    ELSE IF "default-tz" \in DOMAIN self.data THEN self.data["default-tz"]
    ELSE "et"

\* tag values that carry no custom schedule and let the evaluation run
NoCustomValues == {"", "tz=pt", "'TZ=PT'", "tz=pt;foo=bar"}

\* the evaluation is one of the default sentinel path
OnSentinelPath ==
    /\ self.variant \in {"OffHour", "OnHour"}
    /\ \/ i = Untagged /\ opt_out_of(self)
       \/ \E v \in NoCustomValues : i = Tagged(v)
    /\ ~WeekendExcluded

----------------------------------------------------------------------------
(* Claims on the evaluation.                                               *)

\* C1: a call on the OffHour or OnHour variant always hands back a boolean;
\* no exception leaves it, whatever the tag, the instant, the sentinel hour
\* (0..24) and the skew.
C1_NoExceptionEscapes ==
    (Done /\ self.variant \in {"OffHour", "OnHour"}) => result.exc = "none"

\* C2: the zone of an evaluation is that of the tag's tz= value when the tag
\* gives one, else that of the policy's default timezone option, else 'et'.
C2_TimezonePrecedence ==
    (Done /\ Evaluated) => tz = ZoneOf(PrecedenceTz)

C4_SentinelWindow ==
    (Done /\ OnSentinelPath /\ sentinel_hour(self) + skew_of(self) <= 23) =>
        result = Return(sentinel_hour(self) <= now.hour
                        /\ now.hour <= sentinel_hour(self) + skew_of(self))

\* the window of C4 as far as the code keeps it: on the calls whose two clock
\* readings fall on the same date
SentinelWindowSameDate ==
    (Done /\ OnSentinelPath /\ sentinel_hour(self) + skew_of(self) <= 23
          /\ datetime_now(tz, clock).date = now.date) =>
        result = Return(sentinel_hour(self) <= now.hour
                        /\ now.hour <= sentinel_hour(self) + skew_of(self))

\* C6: a pair with an unknown key changes nothing: the tag s;k=v is
\* evaluated as the tag s.
C6_UnknownKeysIgnored ==
    \A b \in UnknownBases : \A u \in UnknownPairs :
        (Done /\ i = Tagged(b \o ";" \o u)) =>
            result = call(self, Tagged(b), cache, FirstClock, clock)

\* C7: without the tag, opt-in never matches, and opt-out gives what the same
\* resource with an empty tag value gives at the same instant.
C7_AbsentTag ==
    (Done /\ i = Untagged) =>
        IF opt_out_of(self)
        THEN result = call(self, Tagged(""), cache, FirstClock, clock)
        ELSE result = Return(FALSE)

\* an untagged resource matched under opt-out
C7_Witness ==
    /\ Done
    /\ i = Untagged
    /\ opt_out_of(self)
    /\ result = Return(TRUE)

\* C8: with weekends unset or false, a Saturday or Sunday in the resolved
\* zone never matches, whatever the variant, the hour and the tag.
C8_WeekendSkip ==
    (Done /\ tz # "None" /\ ~weekends_of(self) /\ weekday(now) \in {5, 6}) =>
        result = Return(FALSE)

\* a Saturday on which an off= group names s and the current hour
C8_Witness ==
    /\ Done
    /\ tz # "None"
    /\ ~weekends_of(self)
    /\ weekday(now) = 5
    /\ self.variant = "OffHour"
    /\ \E s \in CustomSchedules :
           i = Tagged(RenderSchedule(s)) /\ GroupMatches(s.off, now)

\* C9: the decision of a call is the one its first clock reading alone
\* gives, also when the clock advances while the call runs.
C9_SingleClockSample ==
    Done => result = call(self, i, cache, FirstClock, FirstClock)

----------------------------------------------------------------------------
(* The parser on its own: one raw string, parsed and parsed again.         *)

EvalFixed ==
    /\ clock = StartClock
    /\ self = [variant |-> "Time", data |-> <<>>]
    /\ i = Untagged
    /\ EvalIdle

InitParse ==
    /\ EvalFixed
    /\ cache = <<>>
    /\ ppc = [t \in Threads |-> "idle"]
    /\ \E v \in ParsePool : tag_value = [t \in Threads |-> IF t = 1 THEN v ELSE ""]
    /\ schedule = [t \in Threads |-> <<>>]
    /\ pieces = [t \in Threads |-> <<>>]
    /\ ret = [t \in Threads |-> None]

\* ScheduleParser().parse(tag_value), first on the empty cache, then again
Parse ==
    /\ ppc[1] \in {"idle", "returned"}
    /\ \E r \in {parse(cache, tag_value[1])} :
           /\ ret' = [ret EXCEPT ![1] = r.ret]
           /\ cache' = r.cache
    /\ ppc' = [ppc EXCEPT ![1] = IF ppc[1] = "idle" THEN "returned" ELSE "again"]
    /\ UNCHANGED <<clock, evalVars, tag_value, schedule, pieces>>

NextParse == Parse

SpecParse == InitParse /\ [][NextParse]_vars

----------------------------------------------------------------------------
(* Concurrent calls to parse on the shared cache, statement by statement.  *)

InitCache ==
    /\ EvalFixed
    /\ cache = <<>>
    /\ ParseIdle

\* a thread enters parse
PCall(t, v) ==
    /\ ppc[t] = "idle"
    /\ ppc' = [ppc EXCEPT ![t] = "check"]
    /\ tag_value' = [tag_value EXCEPT ![t] = v]
    /\ UNCHANGED <<clock, cache, evalVars, schedule, pieces, ret>>

\* PCheck that puts the empty schedule in the cache as soon as it misses
PCheckPublish(t) ==
    /\ ppc[t] = "check"
    /\ IF tag_value[t] \in DOMAIN cache
       THEN /\ ppc' = [ppc EXCEPT ![t] = "hit"]
            /\ UNCHANGED <<cache, schedule, pieces>>
       ELSE /\ ppc' = [ppc EXCEPT ![t] = "build"]
            /\ cache' = Put(cache, tag_value[t], <<>>)
            /\ schedule' = [schedule EXCEPT ![t] = <<>>]
            /\ pieces' = [pieces EXCEPT ![t] = Split(tag_value[t], ";")]
    /\ UNCHANGED <<clock, evalVars, tag_value, ret>>

\* if tag_value in self.cache; on a miss schedule = {} and the split
PCheck(t) ==
    /\ ppc[t] = "check"
    /\ IF tag_value[t] \in DOMAIN cache
       THEN /\ ppc' = [ppc EXCEPT ![t] = "hit"]
            /\ UNCHANGED <<schedule, pieces>>
       ELSE /\ ppc' = [ppc EXCEPT ![t] = "build"]
            /\ schedule' = [schedule EXCEPT ![t] = <<>>]
            /\ pieces' = [pieces EXCEPT ![t] = Split(tag_value[t], ";")]
    /\ UNCHANGED <<clock, cache, evalVars, tag_value, ret>>

\* return self.cache[tag_value]
PHit(t) ==
    /\ ppc[t] = "hit"
    /\ ret' = [ret EXCEPT ![t] = cache[tag_value[t]]]
    /\ ppc' = [ppc EXCEPT ![t] = "returned"]
    /\ UNCHANGED <<clock, cache, evalVars, tag_value, schedule, pieces>>

\* one iteration of the loop over the pieces
PPiece(t) ==
    /\ ppc[t] = "build"
    /\ Len(pieces[t]) > 0
    /\ schedule' = [schedule EXCEPT ![t] = parse_piece(schedule[t], Head(pieces[t]))]
    /\ pieces' = [pieces EXCEPT ![t] = Tail(pieces[t])]
    /\ UNCHANGED <<clock, cache, evalVars, ppc, tag_value, ret>>

\* the default timezone and the validation
PValidate(t) ==
    /\ ppc[t] = "build"
    /\ Len(pieces[t]) = 0
    /\ schedule' = [schedule EXCEPT ![t] = parse_finish(schedule[t])]
    /\ ppc' = [ppc EXCEPT ![t] = "store"]
    /\ UNCHANGED <<clock, cache, evalVars, tag_value, pieces, ret>>

\* self.cache[tag_value] = schedule; return schedule
PStore(t) ==
    /\ ppc[t] = "store"
    /\ cache' = Put(cache, tag_value[t], schedule[t])
    /\ ret' = [ret EXCEPT ![t] = schedule[t]]
    /\ ppc' = [ppc EXCEPT ![t] = "returned"]
    /\ UNCHANGED <<clock, evalVars, tag_value, schedule, pieces>>

\* the caller takes the result
PReturn(t) ==
    /\ ppc[t] = "returned"
    /\ ppc' = [ppc EXCEPT ![t] = "idle"]
    /\ tag_value' = [tag_value EXCEPT ![t] = ""]
    /\ schedule' = [schedule EXCEPT ![t] = <<>>]
    /\ pieces' = [pieces EXCEPT ![t] = <<>>]
    /\ ret' = [ret EXCEPT ![t] = None]
    /\ UNCHANGED <<clock, cache, evalVars>>

NextCache ==
    \E t \in Threads :
        \/ \E v \in RacePool : PCall(t, v)
        \/ PCheck(t)
        \/ PHit(t)
        \/ PPiece(t)
        \/ PValidate(t)
        \/ PStore(t)
        \/ PReturn(t)

SpecCache == InitCache /\ [][NextCache]_vars

----------------------------------------------------------------------------
(* Claims on the parser.                                                   *)

\* the groups the grammar admits: (days,hour) with days a day code or a range
\* of two day codes and hour a literal of 0..23
DayCodes == {"m", "t", "w", "h", "f", "s", "u"}

GrammarGroups ==
    {"(" \o d \o "," \o ToString(h) \o ")" :
        d \in DayCodes \cup {a \o "-" \o b : a \in DayCodes, b \in DayCodes}, h \in 0..23}

\* the piece of each text
PieceByText == [x \in {p.text : p \in Pieces} |-> CHOOSE p \in Pieces : p.text = x]

\* the pieces a raw string was joined from
PiecesOf(v) == [k \in 1..Len(Split(v, ";")) |-> PieceByText[Split(v, ";")[k]]]

Malformed(piece) ==
    /\ piece.key \in {"on", "off"}
    /\ \E k \in 1..Len(piece.groups) : piece.groups[k] \notin GrammarGroups

Gives(ps, key) == \E k \in 1..Len(ps) : ps[k].key = key

\* the pair of a key that is not followed by another pair of the same key
LastOf(ps, k) == \A j \in (k + 1)..Len(ps) : ps[j].key # ps[k].key

\* on and off both absent or both non-empty lists of rules, each with a
\* non-empty day set of day codes and a hour of 0..23
WellShaped(sch) ==
    /\ ("on" \in DOMAIN sch) = ("off" \in DOMAIN sch)
    /\ \A key \in {"on", "off"} \cap DOMAIN sch :
           /\ Len(sch[key]) > 0
           /\ \A k \in 1..Len(sch[key]) :
                  /\ Len(sch[key][k].days) > 0
                  /\ \A j \in 1..Len(sch[key][k].days) : sch[key][k].days[j] \in DayCodes
                  /\ sch[key][k].hour \in 0..23

Parsed == ppc[1] \in {"returned", "again"}

\* C5: parse gives Invalid or a well shaped schedule, and gives Invalid
\* whenever any group of any on= or off= value of the string is malformed or
\* only one of on= and off= is given.
C5_AllOrNothing ==
    Parsed =>
        LET ps == PiecesOf(tag_value[1])
        IN  /\ ret[1] = None \/ WellShaped(ret[1])
            /\ ((\E k \in 1..Len(ps) : Malformed(ps[k]))
                    \/ Gives(ps, "on") # Gives(ps, "off")) => ret[1] = None

\* C5 as the code keeps it: the malformed group counts when it stands in the
\* last on= pair or the last off= pair of the string.
C5_AllOrNothingLastPair ==
    Parsed =>
        LET ps == PiecesOf(tag_value[1])
        IN  /\ ret[1] = None \/ WellShaped(ret[1])
            /\ ((\E k \in 1..Len(ps) : Malformed(ps[k]) /\ LastOf(ps, k))
                    \/ Gives(ps, "on") # Gives(ps, "off")) => ret[1] = None

\* a string whose on= value has a well-formed group before a malformed one,
\* with a well-formed off= value, parsed to Invalid
C5_Witness ==
    /\ Parsed
    /\ \E ps \in {PiecesOf(tag_value[1])} :
           /\ \E k \in 1..Len(ps) :
                  /\ Malformed(ps[k]) /\ LastOf(ps, k)
                  /\ Len(ps[k].groups) = 2 /\ ps[k].groups[1] \in GrammarGroups
           /\ \E k \in 1..Len(ps) : ps[k].key = "off" /\ ~Malformed(ps[k])
           /\ Gives(ps, "tz")
    /\ ret[1] = None

\* C10: under any interleaving every call returns what parsing its string
\* on an empty cache returns, every cache entry is such a result, and an
\* entry once written keeps its value.
C10_CacheRace ==
    /\ [](\A t \in Threads : ppc[t] = "returned" => ret[t] = parse_fresh(tag_value[t]))
    /\ [](\A v \in DOMAIN cache : cache[v] = parse_fresh(v))
    /\ [][\A v \in DOMAIN cache : v \in DOMAIN cache' /\ cache'[v] = cache[v]]_vars

\* two threads missed the cache on the same string; one has stored and
\* returned, the other is about to store
C10_Witness ==
    /\ ppc[1] = "store"
    /\ ppc[2] = "returned"
    /\ schedule[2] = ret[2]
    /\ tag_value[1] = tag_value[2]
    /\ tag_value[1] \in DOMAIN cache
====
